---- MODULE Spec2Model ----
(***************************************************************************)
(* Model of the rank repository of api/src/rank.rs: the Rank entity         *)
(* (get_computed_id, compute_id, update_score), the RankRepo trait and its  *)
(* two implementations, RankRepoInMemory (a HashMap behind one Mutex) and   *)
(* RankRepoFirestore (point read, insert, run_transaction).                 *)
(*                                                                         *)
(* Numbers.  Rank.average is an f64.  It is modelled as a fraction <<n, d>> *)
(* in lowest terms.  Scores are small integers and totals stay below 7, and *)
(* for a divisor k of the form 2^i + 2^j (1..6 are) IEEE-754 doubles give   *)
(* fl(fl(m / k) * k) = m, so every product average * total of the model is  *)
(* the exact integer and every stored double is the correctly rounded       *)
(* value of the fraction the model holds: equality of fractions is          *)
(* equality of the doubles.  Rank.total is an i64 that stays far from its   *)
(* limits.                                                                  *)
(*                                                                         *)
(* Firestore.  The remote store is outside the repository.  Its calls are   *)
(* modelled by their documented behaviour: a point read returns the         *)
(* document or None; insert creates a document and fails with a conflict    *)
(* when the id is taken; run_transaction begins a transaction, runs the     *)
(* closure, commits, and runs the whole closure again when the commit is    *)
(* aborted because a document the transaction read was written meanwhile.   *)
(***************************************************************************)
EXTENDS Integers, Sequences, FiniteSets, TLC

VARIABLES
    backend,    \* which repository the process was started with: RankRepoInMemory,
                \* RankRepoFirestore or InMemoryUserRepo
    map,        \* RankRepoInMemory.map: key -> Rank
    lock,       \* the tasks holding the MutexGuard of map (at most one)
    docs,       \* the "ranks" collection of Firestore: document id -> Rank
    pc,         \* per task: position inside the repository call it runs
    arg,        \* per task: arguments of the call in progress
    txn,        \* per task: state of its Firestore transaction
    ret,        \* the call that returns in this step, with its result, or NoRet
    calls,      \* number of repository calls issued so far
    base,       \* history: per key, (average, total) when the record was stored
    sum,        \* history: per key, sum of the scores applied since then
    cnt,        \* history: per key, number of successful rank calls since then
    committed,  \* history: per key, (average, total) after the last whole operation
    users,      \* InMemoryUserRepo.map: id -> User
    ulock,      \* the tasks holding the MutexGuard of users (at most one)
    rk0,        \* a Rank value outside any repository, as first built
    rk,         \* that value after the updates applied to it
    hist,       \* the scores applied to it, in order
    out         \* what get_computed_id last returned for it, as an Option

vars == <<backend, map, lock, docs, pc, arg, txn, ret, calls,
          base, sum, cnt, committed, users, ulock, rk0, rk, hist, out>>

entityVars == <<rk0, rk, hist, out>>

userVars == <<users, ulock>>

repoVars == <<backend, map, lock, docs, pc, arg, txn, ret, calls,
              base, sum, cnt, committed>>

-----------------------------------------------------------------------------
(* Bounds *)

NTasks == 2
MaxCalls == 3
MaxScore == 1
MaxRetries == 1
MaxSeq == 3
MaxPureScore == 8

Tasks == 1..NTasks
Scores == 0..MaxScore
PureScores == 0..MaxPureScore

None == "None"

-----------------------------------------------------------------------------
(* f64 values as fractions in lowest terms; a zero denominator stands for
   the values that are no number: <<1, 0>> infinity, <<0, 0>> NaN *)

RECURSIVE GCD(_, _)
GCD(a, b) == IF b = 0 THEN a ELSE GCD(b, a % b)

Norm(n, d) ==
    IF d = 0 THEN (IF n = 0 THEN <<0, 0>> ELSE <<1, 0>>)
    ELSE LET g == GCD(n, d) IN <<n \div g, d \div g>>

\* f64::INFINITY and f64::NAN: infinity * 0.0 is NaN, NaN + x and NaN / x are NaN
Inf == <<1, 0>>
NaN == <<0, 0>>

IsFinite(q) == q[2] # 0

F(n) == <<n, 1>>

FMulInt(q, k) == Norm(q[1] * k, q[2])

FAddInt(q, s) == Norm(q[1] + s * q[2], q[2])

FDivInt(q, k) == Norm(q[1], q[2] * k)

-----------------------------------------------------------------------------
(* Rank *)

\* Variant: the two parts are joined with a separator
get_computed_id_Separator(r) == r.project_id \o "-" \o r.item_id

get_computed_id(r) == r.project_id \o r.item_id

compute_id(r) == [r EXCEPT !.id = get_computed_id(r)]

\* Variant: the old average is not weighted by the old total
NewAverage_Unweighted(r, score) ==
    FDivInt(FAddInt(r.average, score), r.total + 1)

\* line 40-41: the new average, from the old average and the old total
NewAverage(r, score) ==
    FDivInt(FAddInt(FMulInt(r.average, r.total), score), r.total + 1)

\* line 42
NewTotal(r) == r.total + 1

update_score(r, score) ==
    [r EXCEPT !.average = NewAverage(r, score), !.total = NewTotal(r)]

\* Rank::default() with the fields a creation sets
NewRank(p, i) ==
    [id |-> p \o i, project_id |-> p, item_id |-> i, total |-> 0,
     average |-> F(0), min |-> 1, max |-> 5, created_at |-> 1,
     deleted_at |-> None]

\* The Rank values handed to save: a new record, one whose computed id
\* collides with it and whose id field was not recomputed, one carrying an
\* aggregate, on another scale.
RankArgs ==
    { NewRank("a", "bc"),
      [NewRank("ab", "c") EXCEPT !.id = "", !.average = F(5)],
      [NewRank("a", "c") EXCEPT !.total = 1, !.average = F(2), !.created_at = 2,
                                !.min = -5, !.max = 0] }

Keys == { get_computed_id(r) : r \in RankArgs }

Pair(r) == <<r.average, r.total>>

NoPair == <<F(0), -1>>

-----------------------------------------------------------------------------
(* Stores *)

\* HashMap::insert and a document write: the entry under k becomes r
Put(m, k, r) == [x \in DOMAIN m \cup {k} |-> IF x = k THEN r ELSE m[x]]

Empty == [x \in {} |-> None]

\* HashMap::get(..).cloned() and the point read by id: an Option<Rank>,
\* <<>> for None and <<r>> for Some(r)
Lookup(m, k) == IF k \in DOMAIN m THEN <<m[k]>> ELSE <<>>

NoArg == [op |-> "none"]
NoRet == [op |-> "none"]
NoTxn == [active |-> FALSE, reads |-> {}, conflict |-> FALSE,
          staged |-> None, attempts |-> 0]

\* Documents the collection may hold when the process starts
StartDocs == { Empty, Put(Empty, "abc", NewRank("a", "bc")) }

BaseOf(m) == [k \in Keys |-> IF k \in DOMAIN m THEN Pair(m[k]) ELSE NoPair]

InitRepo ==
    /\ backend \in {"memory", "firestore", "users"}
    /\ map = Empty
    /\ lock = {}
    /\ docs \in (IF backend = "firestore" THEN StartDocs ELSE {Empty})
    /\ pc = [t \in Tasks |-> "idle"]
    /\ arg = [t \in Tasks |-> NoArg]
    /\ txn = [t \in Tasks |-> NoTxn]
    /\ ret = NoRet
    /\ calls = 0
    /\ base = BaseOf(docs)
    /\ sum = [k \in Keys |-> 0]
    /\ cnt = [k \in Keys |-> 0]
    /\ committed = BaseOf(docs)
    /\ users = Empty
    /\ ulock = {}

Init ==
    /\ InitRepo
    /\ rk0 = NewRank("a", "bc")
    /\ rk = rk0
    /\ hist = <<>>
    /\ out = <<>>

-----------------------------------------------------------------------------
(* A task calls a method of the RankRepo trait *)

CallArgs ==
    { [op |-> "get", id |-> k] : k \in Keys }
    \cup { [op |-> "save", rank |-> r] : r \in RankArgs }
    \cup { [op |-> "rank", id |-> k, score |-> s] : k \in Keys, s \in Scores }

Invoke(t, a) ==
    /\ backend \in {"memory", "firestore"}
    /\ pc[t] = "idle"
    /\ calls < MaxCalls
    /\ calls' = calls + 1
    /\ arg' = [arg EXCEPT ![t] = a]
    /\ pc' = [pc EXCEPT ![t] = "call"]
    /\ ret' = NoRet
    /\ UNCHANGED <<backend, map, lock, docs, txn, base, sum, cnt, committed>>

\* The call of task t returns res
Return(t, res) ==
    /\ pc' = [pc EXCEPT ![t] = "idle"]
    /\ ret' = res
    /\ arg' = [arg EXCEPT ![t] = NoArg]

-----------------------------------------------------------------------------
(* RankRepoInMemory *)

\* Mutex::lock: blocks while another task holds the guard
MutexFree == lock = {}

\* Variant: the map is read without taking the guard
MemGet_NoLock(t) ==
    /\ backend = "memory" /\ pc[t] = "call" /\ arg[t].op = "get"
    /\ Return(t, [task |-> t, op |-> "get", id |-> arg[t].id, res |-> "Ok",
                  val |-> Lookup(map, arg[t].id), whole |-> committed[arg[t].id]])
    /\ UNCHANGED <<backend, map, lock, docs, txn, calls, base, sum, cnt, committed>>

MemGet(t) ==
    /\ backend = "memory" /\ pc[t] = "call" /\ arg[t].op = "get"
    /\ MutexFree
    /\ Return(t, [task |-> t, op |-> "get", id |-> arg[t].id, res |-> "Ok",
                  val |-> Lookup(map, arg[t].id), whole |-> committed[arg[t].id]])
    /\ UNCHANGED <<backend, map, lock, docs, txn, calls, base, sum, cnt, committed>>

\* Variant: the record is stored under its id field
MemSave_KeyById(t) ==
    /\ backend = "memory" /\ pc[t] = "call" /\ arg[t].op = "save"
    /\ MutexFree
    /\ LET r == arg[t].rank
           k == r.id
       IN /\ map' = Put(map, k, r)
          /\ Return(t, [task |-> t, op |-> "save", id |-> k, res |-> "Ok", val |-> r,
                        old |-> Lookup(map, k)])
    /\ UNCHANGED <<backend, lock, docs, txn, calls, base, sum, cnt, committed>>

MemSave(t) ==
    /\ backend = "memory" /\ pc[t] = "call" /\ arg[t].op = "save"
    /\ MutexFree
    /\ LET r == arg[t].rank
           k == get_computed_id(r)
       IN /\ map' = Put(map, k, r)
          /\ base' = [base EXCEPT ![k] = Pair(r)]
          /\ sum' = [sum EXCEPT ![k] = 0]
          /\ cnt' = [cnt EXCEPT ![k] = 0]
          /\ committed' = [committed EXCEPT ![k] = Pair(r)]
          \* old: what HashMap::insert returns, the record it replaced
          /\ Return(t, [task |-> t, op |-> "save", id |-> k, res |-> "Ok", val |-> r,
                        old |-> Lookup(map, k)])
    /\ UNCHANGED <<backend, lock, docs, txn, calls>>

\* Variant: the record is reached without waiting for the guard
MemRankLock_NoMutex(t) ==
    /\ backend = "memory" /\ pc[t] = "call" /\ arg[t].op = "rank"
    /\ IF arg[t].id \in DOMAIN map
       THEN /\ lock' = lock \cup {t}
            /\ pc' = [pc EXCEPT ![t] = "average"]
            /\ ret' = NoRet
            /\ UNCHANGED arg
       ELSE /\ lock' = lock \ {t}
            /\ Return(t, [task |-> t, op |-> "rank", id |-> arg[t].id, res |-> "NotFound",
                          score |-> arg[t].score])
    /\ UNCHANGED <<backend, map, docs, txn, calls, base, sum, cnt, committed>>

\* Variant: an absent record is created (entry().or_default()) instead of
\* reported
MemRankLock_Insert(t) ==
    /\ backend = "memory" /\ pc[t] = "call" /\ arg[t].op = "rank"
    /\ MutexFree
    /\ map' = IF arg[t].id \in DOMAIN map THEN map
              ELSE Put(map, arg[t].id, NewRank("", ""))
    /\ lock' = lock \cup {t}
    /\ pc' = [pc EXCEPT ![t] = "average"]
    /\ ret' = NoRet
    /\ UNCHANGED <<backend, docs, arg, txn, calls, base, sum, cnt, committed>>

\* Variant: the not-found return leaves with the guard still held
MemRankLock_KeepsGuard(t) ==
    /\ backend = "memory" /\ pc[t] = "call" /\ arg[t].op = "rank"
    /\ MutexFree
    /\ lock' = lock \cup {t}
    /\ IF arg[t].id \in DOMAIN map
       THEN /\ pc' = [pc EXCEPT ![t] = "average"]
            /\ ret' = NoRet
            /\ UNCHANGED arg
       ELSE Return(t, [task |-> t, op |-> "rank", id |-> arg[t].id, res |-> "NotFound",
                       score |-> arg[t].score])
    /\ UNCHANGED <<backend, map, docs, txn, calls, base, sum, cnt, committed>>

\* The check the TODO of line 38 asks for
OutOfRange(r, score) == score < r.min \/ score > r.max

\* Variant: a score outside [min, max] of the record is rejected
MemRankLock_Reject(t) ==
    /\ backend = "memory" /\ pc[t] = "call" /\ arg[t].op = "rank"
    /\ MutexFree
    /\ IF arg[t].id \notin DOMAIN map
       THEN /\ lock' = lock \ {t}
            /\ Return(t, [task |-> t, op |-> "rank", id |-> arg[t].id, res |-> "NotFound",
                          score |-> arg[t].score])
       ELSE IF OutOfRange(map[arg[t].id], arg[t].score)
       THEN /\ lock' = lock \ {t}
            /\ Return(t, [task |-> t, op |-> "rank", id |-> arg[t].id, res |-> "OutOfRange",
                          score |-> arg[t].score])
       ELSE /\ lock' = lock \cup {t}
            /\ pc' = [pc EXCEPT ![t] = "average"]
            /\ ret' = NoRet
            /\ UNCHANGED arg
    /\ UNCHANGED <<backend, map, docs, txn, calls, base, sum, cnt, committed>>

\* lines 75-83: take the guard, look the record up, give up when it is absent
MemRankLock(t) ==
    /\ backend = "memory" /\ pc[t] = "call" /\ arg[t].op = "rank"
    /\ MutexFree
    /\ IF arg[t].id \in DOMAIN map
       THEN /\ lock' = lock \cup {t}
            /\ pc' = [pc EXCEPT ![t] = "average"]
            /\ ret' = NoRet
            /\ UNCHANGED arg
       ELSE /\ lock' = lock \ {t}
            /\ Return(t, [task |-> t, op |-> "rank", id |-> arg[t].id, res |-> "NotFound",
                          score |-> arg[t].score])
    /\ UNCHANGED <<backend, map, docs, txn, calls, base, sum, cnt, committed>>

\* Variant: the update runs over every record of the map (values_mut())
MemRankAverage_EveryRecord(t) ==
    /\ backend = "memory" /\ pc[t] = "average"
    /\ map' = [k \in DOMAIN map |->
                  [map[k] EXCEPT !.average = NewAverage(map[k], arg[t].score)]]
    /\ pc' = [pc EXCEPT ![t] = "total"]
    /\ ret' = NoRet
    /\ UNCHANGED <<backend, lock, docs, arg, txn, calls, base, sum, cnt, committed>>

\* line 85, update_score lines 40-41, on the record inside the map
MemRankAverage(t) ==
    /\ backend = "memory" /\ pc[t] = "average"
    /\ LET k == arg[t].id
       IN map' = [map EXCEPT ![k].average = NewAverage(map[k], arg[t].score)]
    /\ pc' = [pc EXCEPT ![t] = "total"]
    /\ ret' = NoRet
    /\ UNCHANGED <<backend, lock, docs, arg, txn, calls, base, sum, cnt, committed>>

\* Variant: the rank also derives the id field again (compute_id)
MemRankTotal_ComputeId(t) ==
    /\ backend = "memory" /\ pc[t] = "total"
    /\ LET k == arg[t].id
           r == compute_id([map[k] EXCEPT !.total = NewTotal(map[k])])
       IN /\ map' = [map EXCEPT ![k] = r]
          /\ sum' = [sum EXCEPT ![k] = @ + arg[t].score]
          /\ cnt' = [cnt EXCEPT ![k] = @ + 1]
          /\ committed' = [committed EXCEPT ![k] = Pair(r)]
          /\ Return(t, [task |-> t, op |-> "rank", id |-> k, res |-> "Ok", score |-> arg[t].score])
    /\ lock' = lock \ {t}
    /\ UNCHANGED <<backend, docs, txn, calls, base>>

\* update_score line 42, then line 87: the guard is dropped on return
MemRankTotal(t) ==
    /\ backend = "memory" /\ pc[t] = "total"
    /\ LET k == arg[t].id
           r == [map[k] EXCEPT !.total = NewTotal(map[k])]
       IN /\ map' = [map EXCEPT ![k] = r]
          /\ sum' = [sum EXCEPT ![k] = @ + arg[t].score]
          /\ cnt' = [cnt EXCEPT ![k] = @ + 1]
          /\ committed' = [committed EXCEPT ![k] = Pair(r)]
          /\ Return(t, [task |-> t, op |-> "rank", id |-> k, res |-> "Ok", score |-> arg[t].score])
    /\ lock' = lock \ {t}
    /\ UNCHANGED <<backend, docs, txn, calls, base>>

-----------------------------------------------------------------------------
(* RankRepoFirestore *)

FsGet(t) ==
    /\ backend = "firestore" /\ pc[t] = "call" /\ arg[t].op = "get"
    /\ Return(t, [task |-> t, op |-> "get", id |-> arg[t].id, res |-> "Ok",
                  val |-> Lookup(docs, arg[t].id), whole |-> committed[arg[t].id]])
    /\ UNCHANGED <<backend, map, lock, docs, txn, calls, base, sum, cnt, committed>>

\* Variant: the document is written whether it exists or not (update())
FsSave_Upsert(t) ==
    /\ backend = "firestore" /\ pc[t] = "call" /\ arg[t].op = "save"
    /\ LET r == arg[t].rank
           k == get_computed_id(r)
       IN /\ docs' = Put(docs, k, r)
          /\ base' = [base EXCEPT ![k] = Pair(r)]
          /\ sum' = [sum EXCEPT ![k] = 0]
          /\ cnt' = [cnt EXCEPT ![k] = 0]
          /\ committed' = [committed EXCEPT ![k] = Pair(r)]
          /\ Return(t, [task |-> t, op |-> "save", id |-> k, res |-> "Ok", val |-> r])
    /\ UNCHANGED <<backend, map, lock, txn, calls>>

\* lines 115-122: insert() creates the document; an id already taken is a conflict
FsSave(t) ==
    /\ backend = "firestore" /\ pc[t] = "call" /\ arg[t].op = "save"
    /\ LET r == arg[t].rank
           k == get_computed_id(r)
       IN IF k \in DOMAIN docs
          THEN /\ Return(t, [task |-> t, op |-> "save", id |-> k, res |-> "Conflict", val |-> r])
               /\ UNCHANGED <<docs, base, sum, cnt, committed>>
          ELSE /\ docs' = Put(docs, k, r)
               /\ base' = [base EXCEPT ![k] = Pair(r)]
               /\ sum' = [sum EXCEPT ![k] = 0]
               /\ cnt' = [cnt EXCEPT ![k] = 0]
               /\ committed' = [committed EXCEPT ![k] = Pair(r)]
               /\ Return(t, [task |-> t, op |-> "save", id |-> k, res |-> "Ok", val |-> r])
    /\ UNCHANGED <<backend, map, lock, txn, calls>>

\* line 127: run_transaction begins a transaction (again after an aborted commit)
FsBegin(t) ==
    /\ backend = "firestore" /\ pc[t] = "call" /\ arg[t].op = "rank"
    /\ txn' = [txn EXCEPT ![t] = [NoTxn EXCEPT !.active = TRUE,
                                                !.attempts = txn[t].attempts]]
    /\ pc' = [pc EXCEPT ![t] = "closure"]
    /\ ret' = NoRet
    /\ UNCHANGED <<backend, map, lock, docs, arg, calls, base, sum, cnt, committed>>

\* Variant: the read goes through self.db, outside the transaction
TxnReads_OutsideTransaction(t, id) == {}

\* The documents a read of id through handle db of task t enters in the
\* transaction's read set: db is the handle the closure receives (line 131)
TxnReads(t, id) == {id}

\* lines 131-152: read inside the transaction, expect the document, compute,
\* stage the update of fields average and total
FsClosure(t) ==
    /\ backend = "firestore" /\ pc[t] = "closure"
    /\ LET k == arg[t].id
           found == Lookup(docs, k)
       IN IF found = <<>>
          THEN \* line 138: expect() panics the task
               /\ pc' = [pc EXCEPT ![t] = "panicked"]
               /\ ret' = [task |-> t, op |-> "rank", id |-> k, res |-> "Panic",
                       score |-> arg[t].score]
               /\ arg' = [arg EXCEPT ![t] = NoArg]
               /\ txn' = [txn EXCEPT ![t] = NoTxn]
          ELSE LET r == update_score(found[1], arg[t].score)
               IN /\ txn' = [txn EXCEPT ![t].reads = TxnReads(t, k),
                                        ![t].staged = [id |-> k, average |-> r.average,
                                                       total |-> r.total]]
                  /\ pc' = [pc EXCEPT ![t] = "commit"]
                  /\ ret' = NoRet
            /\ UNCHANGED arg
    /\ UNCHANGED <<backend, map, lock, docs, calls, base, sum, cnt, committed>>

\* The commit of run_transaction succeeds: the staged fields are written as
\* one unit, and every other open transaction that read the document will
\* find its own commit aborted
FsCommit(t) ==
    /\ backend = "firestore" /\ pc[t] = "commit"
    /\ ~txn[t].conflict
    /\ LET w == txn[t].staged
           k == w.id
           r == [docs[k] EXCEPT !.average = w.average, !.total = w.total]
       IN /\ docs' = [docs EXCEPT ![k] = r]
          /\ txn' = [u \in Tasks |->
                        IF u = t THEN NoTxn
                        ELSE IF txn[u].active /\ k \in txn[u].reads
                             THEN [txn[u] EXCEPT !.conflict = TRUE]
                             ELSE txn[u]]
          /\ sum' = [sum EXCEPT ![k] = @ + arg[t].score]
          /\ cnt' = [cnt EXCEPT ![k] = @ + 1]
          /\ committed' = [committed EXCEPT ![k] = Pair(r)]
          /\ Return(t, [task |-> t, op |-> "rank", id |-> k, res |-> "Ok",
                        score |-> arg[t].score, retries |-> txn[t].attempts])
    /\ UNCHANGED <<backend, map, lock, calls, base>>

\* The commit is aborted: run_transaction runs the closure again, until it
\* gives up and returns the error
FsAbort(t) ==
    /\ backend = "firestore" /\ pc[t] = "commit"
    /\ txn[t].conflict
    /\ IF txn[t].attempts < MaxRetries
       THEN /\ txn' = [txn EXCEPT ![t] = [NoTxn EXCEPT !.attempts = txn[t].attempts + 1]]
            /\ pc' = [pc EXCEPT ![t] = "call"]
            /\ ret' = NoRet
            /\ UNCHANGED arg
       ELSE /\ txn' = [txn EXCEPT ![t] = NoTxn]
            /\ Return(t, [task |-> t, op |-> "rank", id |-> arg[t].id, res |-> "Aborted",
                          score |-> arg[t].score])
    /\ UNCHANGED <<backend, map, lock, docs, calls, base, sum, cnt, committed>>

\* Any Firestore call may fail (connectivity, decoding): the error is returned
\* and an open transaction is dropped without a write
FsError(t) ==
    /\ backend = "firestore" /\ pc[t] \in {"call", "closure", "commit"}
    /\ txn' = [txn EXCEPT ![t] = NoTxn]
    /\ Return(t, [task |-> t, op |-> arg[t].op, id |-> IF arg[t].op = "save"
                                            THEN get_computed_id(arg[t].rank)
                                            ELSE arg[t].id,
                  res |-> "Error"])
    /\ UNCHANGED <<backend, map, lock, docs, calls, base, sum, cnt, committed>>

-----------------------------------------------------------------------------
(* main.rs: the user handlers over InMemoryUserRepo *)

UserIds == {"u1", "u2"}

Usernames == {"ann", "bob"}

\* A request: GET /users/:id, or POST /users with the id nanoid!() draws
UserCallArgs ==
    { [op |-> "get_user", id |-> i] : i \in UserIds }
    \cup { [op |-> "create_user", id |-> i, username |-> n] :
              i \in UserIds, n \in Usernames }

InvokeUser(t, a) ==
    /\ backend = "users"
    /\ pc[t] = "idle"
    /\ calls < MaxCalls
    /\ calls' = calls + 1
    /\ arg' = [arg EXCEPT ![t] = a]
    /\ pc' = [pc EXCEPT ![t] = "call"]
    /\ ret' = NoRet
    /\ UNCHANGED <<backend, map, lock, docs, txn, base, sum, cnt, committed, userVars>>

\* Mutex::lock of InMemoryUserRepo.map
UserMutexFree == ulock = {}

\* Variant: an absent user is reported as an error
get_user_repo_AbsentIsError(id) ==
    IF id \in DOMAIN users THEN [res |-> "Ok", val |-> Lookup(users, id)]
    ELSE [res |-> "NotFound", val |-> <<>>]

\* InMemoryUserRepo::get_user, line 148: always Ok
get_user_repo(id) == [res |-> "Ok", val |-> Lookup(users, id)]

\* handler get_user, lines 73-87
get_user(t) ==
    /\ backend = "users" /\ pc[t] = "call" /\ arg[t].op = "get_user"
    /\ UserMutexFree
    /\ LET r == get_user_repo(arg[t].id)
       IN Return(t, [task |-> t, op |-> "get_user", id |-> arg[t].id,
                     res |-> r.res, val |-> r.val,
                     status |-> IF r.res # "Ok" THEN "INTERNAL_SERVER_ERROR"
                                ELSE IF r.val = <<>> THEN "NOT_FOUND" ELSE "OK"])
    /\ UNCHANGED <<backend, map, lock, docs, txn, calls, base, sum, cnt, committed,
                   userVars>>

\* handler create_user, lines 89-110, with InMemoryUserRepo::save_user,
\* lines 151-158
create_user(t) ==
    /\ backend = "users" /\ pc[t] = "call" /\ arg[t].op = "create_user"
    /\ UserMutexFree
    /\ LET user == [id |-> arg[t].id, username |-> arg[t].username,
                    created_at |-> 1, deleted_at |-> None]
       IN /\ users' = Put(users, user.id, user)
          /\ Return(t, [task |-> t, op |-> "create_user", id |-> user.id,
                        res |-> "Ok", val |-> user, status |-> "CREATED"])
    /\ UNCHANGED <<backend, map, lock, docs, txn, calls, base, sum, cnt, committed,
                   ulock>>

-----------------------------------------------------------------------------

Next ==
    \/ \E t \in Tasks, a \in CallArgs : Invoke(t, a) /\ UNCHANGED <<userVars, entityVars>>
    \/ \E t \in Tasks : MemGet(t) /\ UNCHANGED <<userVars, entityVars>>
    \/ \E t \in Tasks : MemSave(t) /\ UNCHANGED <<userVars, entityVars>>
    \/ \E t \in Tasks : MemRankLock(t) /\ UNCHANGED <<userVars, entityVars>>
    \/ \E t \in Tasks : MemRankAverage(t) /\ UNCHANGED <<userVars, entityVars>>
    \/ \E t \in Tasks : MemRankTotal(t) /\ UNCHANGED <<userVars, entityVars>>
    \/ \E t \in Tasks : FsGet(t) /\ UNCHANGED <<userVars, entityVars>>
    \/ \E t \in Tasks : FsSave(t) /\ UNCHANGED <<userVars, entityVars>>
    \/ \E t \in Tasks : FsBegin(t) /\ UNCHANGED <<userVars, entityVars>>
    \/ \E t \in Tasks : FsClosure(t) /\ UNCHANGED <<userVars, entityVars>>
    \/ \E t \in Tasks : FsCommit(t) /\ UNCHANGED <<userVars, entityVars>>
    \/ \E t \in Tasks : FsAbort(t) /\ UNCHANGED <<userVars, entityVars>>
    \/ \E t \in Tasks : FsError(t) /\ UNCHANGED <<userVars, entityVars>>
    \/ \E t \in Tasks, a \in UserCallArgs : InvokeUser(t, a) /\ UNCHANGED entityVars
    \/ \E t \in Tasks : get_user(t) /\ UNCHANGED entityVars
    \/ \E t \in Tasks : create_user(t) /\ UNCHANGED entityVars

Spec == Init /\ [][Next]_vars

\* The store of the backend in use
Store == IF backend = "memory" THEN map ELSE docs

-----------------------------------------------------------------------------
(* The entity logic alone: update_score applied to a Rank value *)

\* The Rank values the entity logic starts from: those handed to save, and
\* one built from ("p1", "i1") whose id is not computed yet
EntityStarts ==
    RankArgs \cup { [NewRank("p1", "i1") EXCEPT !.id = ""],
                    [NewRank("p1", "i1") EXCEPT !.average = Inf] }

InitEntity ==
    /\ backend = "none"
    /\ map = Empty
    /\ lock = {}
    /\ docs = Empty
    /\ pc = [t \in Tasks |-> "idle"]
    /\ arg = [t \in Tasks |-> NoArg]
    /\ txn = [t \in Tasks |-> NoTxn]
    /\ ret = NoRet
    /\ calls = 0
    /\ base = BaseOf(Empty)
    /\ sum = [k \in Keys |-> 0]
    /\ cnt = [k \in Keys |-> 0]
    /\ committed = BaseOf(Empty)
    /\ users = Empty
    /\ ulock = {}
    /\ rk0 \in EntityStarts
    /\ rk = rk0
    /\ hist = <<>>
    /\ out = <<>>

UpdateScore(score) ==
    /\ Len(hist) < MaxSeq
    /\ rk' = update_score(rk, score)
    /\ hist' = Append(hist, score)
    /\ UNCHANGED <<rk0, out>>
    /\ UNCHANGED <<repoVars, userVars>>

\* Rank::get_computed_id, lines 30-32: takes &self, returns the String
GetComputedId ==
    /\ out' = <<get_computed_id(rk)>>
    /\ UNCHANGED <<rk0, rk, hist>>
    /\ UNCHANGED <<repoVars, userVars>>

\* Rank::compute_id, lines 34-36
ComputeId ==
    /\ rk' = compute_id(rk)
    /\ UNCHANGED <<rk0, hist, out>>
    /\ UNCHANGED <<repoVars, userVars>>

NextEntity ==
    \/ \E score \in PureScores : UpdateScore(score)
    \/ GetComputedId
    \/ ComputeId

SpecEntity == InitEntity /\ [][NextEntity]_vars

-----------------------------------------------------------------------------
(* One process, one call at a time, on both backends side by side *)

\* A whole call of RankRepoInMemory on map m: the map left and the result
MemCall(m, a) ==
    CASE a.op = "get" ->
           [store |-> m, res |-> "Ok", val |-> Lookup(m, a.id)]
      [] a.op = "save" ->
           [store |-> Put(m, get_computed_id(a.rank), a.rank), res |-> "Ok",
            val |-> <<>>]
      [] a.op = "rank" ->
           IF a.id \in DOMAIN m
           THEN [store |-> [m EXCEPT ![a.id] = update_score(m[a.id], a.score)],
                 res |-> "Ok", val |-> <<>>]
           ELSE [store |-> m, res |-> "NotFound", val |-> <<>>]

\* A whole call of RankRepoFirestore on collection d, without backend failure
FsCall(d, a) ==
    CASE a.op = "get" ->
           [store |-> d, res |-> "Ok", val |-> Lookup(d, a.id)]
      [] a.op = "save" ->
           IF get_computed_id(a.rank) \in DOMAIN d
           THEN [store |-> d, res |-> "Conflict", val |-> <<>>]
           ELSE [store |-> Put(d, get_computed_id(a.rank), a.rank), res |-> "Ok",
                 val |-> <<>>]
      [] a.op = "rank" ->
           IF a.id \in DOMAIN d
           THEN [store |-> [d EXCEPT ![a.id] = update_score(d[a.id], a.score)],
                 res |-> "Ok", val |-> <<>>]
           ELSE [store |-> d, res |-> "Panic", val |-> <<>>]

InitBoth ==
    /\ backend = "both"
    /\ map = Empty
    /\ lock = {}
    /\ docs = Empty
    /\ pc = [t \in Tasks |-> "idle"]
    /\ arg = [t \in Tasks |-> NoArg]
    /\ txn = [t \in Tasks |-> NoTxn]
    /\ ret = NoRet
    /\ calls = 0
    /\ base = BaseOf(Empty)
    /\ sum = [k \in Keys |-> 0]
    /\ cnt = [k \in Keys |-> 0]
    /\ committed = BaseOf(Empty)
    /\ users = Empty
    /\ ulock = {}
    /\ rk0 = NewRank("a", "bc")
    /\ rk = rk0
    /\ hist = <<>>
    /\ out = <<>>

CallBoth(a) ==
    /\ calls < MaxCalls
    /\ calls' = calls + 1
    /\ LET m == MemCall(map, a)
           f == FsCall(docs, a)
       IN /\ map' = m.store
          /\ docs' = f.store
          /\ ret' = [op |-> a.op, memory |-> [res |-> m.res, val |-> m.val],
                     firestore |-> [res |-> f.res, val |-> f.val]]
    /\ UNCHANGED <<backend, lock, pc, arg, txn, base, sum, cnt, committed>>
    /\ UNCHANGED <<userVars, entityVars>>

NextBoth == \E a \in CallArgs : CallBoth(a)

SpecBoth == InitBoth /\ [][NextBoth]_vars

-----------------------------------------------------------------------------
(* Properties *)

\* Task t holds the guard of the map in the middle of an update of record k
InRank(t, k) == pc[t] \in {"average", "total"} /\ arg[t].id = k

Quiet(k) == \A t \in Tasks : ~InRank(t, k)

\* (average, total) of the record under k by the history: the pair it was
\* stored with, then the scores of the successful rank calls on k
Expected(k) ==
    LET b == base[k]
        n == b[2] + cnt[k]
    IN IF cnt[k] = 0 THEN b
       ELSE <<FDivInt(FAddInt(FMulInt(b[1], b[2]), sum[k]), n), n>>

\* Task t takes a step of a rank call in this transition
RankStep(t) == pc[t] # "idle" /\ arg[t].op = "rank" /\ pc'[t] # pc[t]

\* C1: in-memory backend: once the rank calls on a record stored with
\* total = 0 have returned, its total is the number of calls that succeeded
\* and its average is the mean of their scores, whatever the interleaving.
C1_MemoryConcurrentRank ==
    backend = "memory" =>
        \A k \in DOMAIN map :
            (base[k][2] = 0 /\ Quiet(k)) =>
                /\ map[k].total = cnt[k]
                /\ cnt[k] > 0 => map[k].average = Norm(sum[k], cnt[k])

\* Two rank calls with different scores succeeded on a record stored with
\* total = 0
C1_Witness ==
    /\ backend = "memory"
    /\ ret.op = "rank" /\ ret.res = "Ok"
    /\ base[ret.id][2] = 0 /\ cnt[ret.id] = 2 /\ sum[ret.id] = 1
    /\ map[ret.id].average = <<1, 2>>

\* C2: transactional backend: the stored total has grown by the number of
\* rank calls that returned success and the stored average is the mean of
\* everything submitted, whatever the interleaving and the retries.
C2_FirestoreLinearizable ==
    backend = "firestore" =>
        \A k \in DOMAIN docs : Pair(docs[k]) = Expected(k)

\* A rank call succeeds after its first commit was aborted by another one
C2_Witness ==
    /\ backend = "firestore"
    /\ ret.op = "rank" /\ ret.res = "Ok" /\ ret.retries >= 1
    /\ cnt[ret.id] = 2 /\ sum[ret.id] = 1

\* C3: rank is all or nothing: a get returns a record whose (average, total)
\* is the pair left by the last whole operation on it, and outside an update
\* in progress under the guard the store holds that pair, also after a rank
\* that failed or was aborted.
C3_RankAllOrNothing ==
    /\ (ret.op = "get" /\ ret.res = "Ok") =>
           \/ ret.val = <<>> /\ ret.whole = NoPair
           \/ Len(ret.val) = 1 /\ Pair(ret.val[1]) = ret.whole
    /\ \A k \in DOMAIN Store : Quiet(k) => Pair(Store[k]) = committed[k]

\* A get returns a ranked record while a rank call on it is in progress
C3_Witness ==
    /\ ret.op = "get" /\ ret.res = "Ok" /\ Len(ret.val) = 1
    /\ ret.val[1].total >= 1
    /\ \E u \in Tasks : pc[u] # "idle" /\ arg[u].op = "rank" /\ arg[u].id = ret.id

RECURSIVE SumSeq(_)
SumSeq(q) == IF q = <<>> THEN 0 ELSE Head(q) + SumSeq(Tail(q))

\* C4: from average = 0 and total = 0, n updates leave total = n and the
\* average of the scores; [2, 4, 6] gives (4, 3) and [8] gives (8, 1).
C4_AverageOfSequence ==
    (rk0.average = F(0) /\ rk0.total = 0) =>
        /\ rk.total = Len(hist)
        /\ Len(hist) > 0 => rk.average = Norm(SumSeq(hist), Len(hist))
        /\ hist = <<2, 4, 6>> => rk.average = F(4) /\ rk.total = 3
        /\ hist = <<8>> => rk.average = F(8) /\ rk.total = 1

C4_Witness ==
    /\ rk0.average = F(0) /\ rk0.total = 0
    /\ hist = <<2, 4, 6>> /\ rk.total = 3

\* C5: in-memory backend: a rank call on an id without record returns the
\* not-found error, leaves the map as it was and the guard released.
C5_MemoryRankNotFound ==
    [][\A t \in Tasks :
          (backend = "memory" /\ RankStep(t) /\ pc[t] = "call"
              /\ arg[t].id \notin DOMAIN map) =>
          /\ ret'.op = "rank" /\ ret'.task = t /\ ret'.res = "NotFound"
          /\ pc'[t] = "idle"
          /\ map' = map
          /\ lock' = {}]_vars

\* A rank call has returned not-found on a map that holds another record
C5_Witness ==
    /\ backend = "memory"
    /\ ret.op = "rank" /\ ret.res = "NotFound"
    /\ ret.id \notin DOMAIN map /\ DOMAIN map # {}
    /\ lock = {}

\* C6: transactional backend: a rank call on an id without document returns
\* not-found as a value and the task goes on.
C6_FirestoreRankNotFound ==
    (backend = "firestore" /\ ret.op = "rank" /\ ret.id \notin DOMAIN docs
        /\ ret.res # "Error") =>
        /\ ret.res = "NotFound"
        /\ pc[ret.task] = "idle"

\* C7: save succeeds on every store state and get(e.id) then returns e.
C7_SaveUpsert ==
    (ret.op = "save" /\ ret.res # "Error") =>
        /\ ret.res = "Ok"
        /\ Lookup(Store, ret.val.id) = <<ret.val>>

\* C8: a save right after a successful save under the same id returns
\* success and leaves its record stored; with the same value the store is
\* left as the first save left it.
C8_SaveIdempotent ==
    [][\A u \in Tasks :
          (ret.op = "save" /\ ret.res = "Ok"
              /\ pc[u] = "call" /\ arg[u].op = "save"
              /\ get_computed_id(arg[u].rank) = ret.id
              /\ pc'[u] = "idle" /\ ret'.res # "Error") =>
          /\ ret'.res = "Ok"
          /\ Lookup(Store', ret.id) = <<arg[u].rank>>
          /\ arg[u].rank = ret.val => Store' = Store]_vars

\* C9: every stored record has id = project_id ++ item_id.
C9_IdentityInvariant ==
    \A k \in DOMAIN Store : Store[k].id = Store[k].project_id \o Store[k].item_id

\* C10: a step of a rank call on id a leaves every other id as it was: its
\* record, whether it exists, and the transactions that read it; and every
\* record holds the (average, total) its own rank calls give.
C10_Frame ==
    \A t \in Tasks :
        RankStep(t) =>
            \A b \in Keys \ {arg[t].id} :
                /\ Lookup(map', b) = Lookup(map, b)
                /\ Lookup(docs', b) = Lookup(docs, b)
                /\ \A u \in Tasks :
                       (txn'[u].conflict /\ ~txn[u].conflict) => b \notin txn[u].reads

C10_IsolationAcrossIds ==
    /\ [][C10_Frame]_vars
    /\ [](\A k \in DOMAIN Store : Quiet(k) => Pair(Store[k]) = Expected(k))

\* A rank call on one id commits while a transaction on another id is open,
\* and that transaction is not aborted
C10_Witness ==
    /\ ret.op = "rank" /\ ret.res = "Ok"
    /\ \E t \in Tasks :
           /\ pc[t] = "commit" /\ arg[t].id # ret.id
           /\ ~txn[t].conflict


\* Task t takes the step of a get in this transition
GetStep(t) ==
    pc[t] = "call" /\ arg[t].op \in {"get", "get_user"} /\ pc'[t] # pc[t]

C11_GetResult ==
    /\ (ret.op = "get" /\ ret.res # "Error") =>
           /\ ret.res = "Ok"
           /\ ret.val = Lookup(Store, ret.id)
    /\ (ret.op = "get" /\ backend = "memory") => ret.res = "Ok"
    /\ ret.op = "get_user" =>
           /\ ret.res = "Ok"
           /\ ret.val = Lookup(users, ret.id)
           /\ ret.status = IF ret.id \in DOMAIN users THEN "OK" ELSE "NOT_FOUND"

\* C11: a get on an id without record returns Ok(None) and a present record
\* comes back as Some(record); the in-memory rank and user repositories
\* never return an error from get; no get changes a store.
C11_GetAbsentIsNone ==
    /\ []C11_GetResult
    /\ [][\A t \in Tasks :
             GetStep(t) => map' = map /\ docs' = docs /\ users' = users]_vars

\* A get has returned None from a map that holds another record
C11_Witness ==
    /\ backend = "memory"
    /\ ret.op = "get" /\ ret.res = "Ok" /\ ret.val = <<>>
    /\ DOMAIN map # {}


\* C12: on the same sequence of calls from empty stores, the two backends
\* return the same result for every call and hold the same records.
C12_BackendEquivalence ==
    /\ ret.op # "none" => ret.memory = ret.firestore
    /\ map = docs


C13_Returned ==
    /\ out # <<>> => out = <<rk.project_id \o rk.item_id>>
    /\ (out # <<>> /\ rk.project_id = "p1" /\ rk.item_id = "i1") => out = <<"p1i1">>

C13_Step ==
    /\ out' # out => rk' = rk
    /\ (out # <<>> /\ out' # <<>>) => out' = out
    /\ hist' = hist =>
           \/ rk' = rk
           \/ rk' = [rk EXCEPT !.id = rk.project_id \o rk.item_id]

\* C13: get_computed_id returns project_id followed by item_id with no
\* separator (("p1", "i1") gives "p1i1"), the same value on every call, and
\* leaves the record as it is; compute_id sets id to that value and changes
\* no other field.
C13_DeriveId ==
    /\ []C13_Returned
    /\ [][C13_Step]_vars

\* Both were applied to the record built from ("p1", "i1")
C13_Witness ==
    /\ out = <<"p1i1">>
    /\ rk0.id = "" /\ rk.id = "p1i1"


\* Task t takes a step of a call of kind op on key k in this transition
StepOn(t, op, k) ==
    /\ pc[t] # "idle" /\ pc'[t] # pc[t]
    /\ arg[t].op = op
    /\ k = (IF op = "save" THEN get_computed_id(arg[t].rank) ELSE arg[t].id)

\* The record under k stays and its average or total changes in this transition
Rewritten(k) ==
    k \in DOMAIN Store /\ k \in DOMAIN Store' /\ Pair(Store'[k]) # Pair(Store[k])

\* C14 as stated: the average and total of an existing record change only
\* by a rank call on its id; no save changes them.
C14_RankSoleWriter ==
    [][\A k \in Keys : Rewritten(k) => \E t \in Tasks : StepOn(t, "rank", k)]_vars

\* C14 amended: they change only by a rank call on its id or by a save
\* under its id on the in-memory backend, which replaces the whole record;
\* a save on the transactional backend changes no existing record.
C14_RankOrMemorySave ==
    [][\A k \in Keys :
          Rewritten(k) =>
              \E t \in Tasks :
                  \/ StepOn(t, "rank", k)
                  \/ backend = "memory" /\ StepOn(t, "save", k)]_vars

\* A save has replaced a ranked record by one with another (average, total)
C14_Witness ==
    /\ backend = "memory"
    /\ ret.op = "save" /\ ret.res = "Ok"
    /\ Len(ret.old) = 1 /\ ret.old[1].total >= 1
    /\ Pair(ret.old[1]) # Pair(ret.val)


-----------------------------------------------------------------------------
(* The collection shared with another writer *)

\* The value the other writer gives field max
OtherMax == 9

\* Another client of the collection rewrites field max of document k; every
\* open transaction that read k will find its commit aborted
ExternalWrite(k) ==
    /\ backend = "firestore"
    /\ k \in DOMAIN docs /\ docs[k].max # OtherMax
    /\ calls < MaxCalls
    /\ calls' = calls + 1
    /\ docs' = [docs EXCEPT ![k].max = OtherMax]
    /\ txn' = [u \in Tasks |->
                  IF txn[u].active /\ k \in txn[u].reads
                  THEN [txn[u] EXCEPT !.conflict = TRUE]
                  ELSE txn[u]]
    /\ ret' = NoRet
    /\ UNCHANGED <<backend, map, lock, pc, arg, base, sum, cnt, committed>>

NextShared ==
    \/ Next
    \/ \E k \in Keys : ExternalWrite(k) /\ UNCHANGED <<userVars, entityVars>>

SpecShared == Init /\ [][NextShared]_vars

\* The fields of a record that a rank must leave alone
Identity(r) ==
    <<r.id, r.project_id, r.item_id, r.min, r.max, r.created_at, r.deleted_at>>

\* C15: no step of a rank call, its successful end included, changes the id,
\* project_id, item_id, min, max, created_at or deleted_at of any record;
\* the committed update leaves them as the last writer set them.
C15_RankWritesAverageTotalOnly ==
    [][\A t \in Tasks :
          RankStep(t) =>
              \A k \in DOMAIN Store :
                  k \in DOMAIN Store' /\ Identity(Store'[k]) = Identity(Store[k])]_vars

\* A rank has committed after another writer changed max between its first
\* read and its commit: max is the other writer's, the aggregate is the rank's
C15_Witness ==
    /\ backend = "firestore"
    /\ ret.op = "rank" /\ ret.res = "Ok" /\ ret.retries >= 1
    /\ cnt[ret.id] = 1
    /\ docs[ret.id].max = OtherMax
    /\ docs[ret.id].total = 1


\* C16 as stated: with total = 0, whatever the prior average, one update
\* yields average = score and total = 1.
C16_PriorAverageDiscarded ==
    (rk0.total = 0 /\ Len(hist) = 1) =>
        rk.average = F(hist[1]) /\ rk.total = 1

\* C16 amended: with total = 0 one update yields total = 1, and average =
\* score when the prior average is finite; a prior average that is no
\* number is not discarded, the new average is NaN.
C16_FirstUpdate ==
    (rk0.total = 0 /\ Len(hist) = 1) =>
        /\ rk.total = 1
        /\ IsFinite(rk0.average) => rk.average = F(hist[1])
        /\ ~IsFinite(rk0.average) => rk.average = NaN

\* The record saved with average = 5 and total = 0 has taken score 3
C16_Witness ==
    /\ rk0.total = 0 /\ rk0.average = F(5)
    /\ hist = <<3>> /\ rk.average = F(3) /\ rk.total = 1


\* C17, for the rank step of task t: a score outside [min, max] of an
\* existing record is never turned down, and when the call succeeds the
\* total has grown by 1 and the average follows the update formula
C17_Step(t) ==
    LET k == arg[t].id
        s == arg[t].score
        c == committed[k]
    IN (/\ RankStep(t) /\ ret'.op = "rank"
        /\ k \in DOMAIN Store /\ OutOfRange(Store[k], s)) =>
           /\ ret'.res \in {"Ok", "Aborted", "Error"}
           /\ backend = "memory" => ret'.res = "Ok"
           /\ ret'.res = "Aborted" => txn[t].conflict
           /\ ret'.res = "Ok" =>
                  Pair(Store'[k]) =
                      <<FDivInt(FAddInt(FMulInt(c[1], c[2]), s), c[2] + 1), c[2] + 1>>

\* C17: no bounds check: a rank with score < min or score > max of the
\* existing record is accepted and applied like any other score.
C17_NoBoundsCheck == [][\A t \in Tasks : C17_Step(t)]_vars

\* In memory a rank with a score below min has succeeded on a record
\* stored with total = 0, and the stored average now lies below min
C17_Witness ==
    /\ backend = "memory"
    /\ ret.op = "rank" /\ ret.res = "Ok"
    /\ ret.score < map[ret.id].min
    /\ map[ret.id].total = 1
    /\ map[ret.id].average = F(ret.score)


\* C18: records with different (project_id, item_id) live under different
\* keys: the record a save replaces has the project_id and the item_id of
\* the record saved.
C18_DistinctPairsDistinctKeys ==
    (/\ backend = "memory"
     /\ ret.op = "save" /\ ret.res = "Ok"
     /\ Len(ret.old) = 1) =>
        /\ ret.old[1].project_id = ret.val.project_id
        /\ ret.old[1].item_id = ret.val.item_id


\* C19: in-memory backend: every record of the map sits under the key
\* project_id ++ item_id of that record, whatever its id field holds.
C19_KeyIsComputedId ==
    backend = "memory" =>
        \A k \in DOMAIN map : k = map[k].project_id \o map[k].item_id

\* A record whose id field is not its key has been saved and then ranked
C19_Witness ==
    /\ backend = "memory"
    /\ ret.op = "rank" /\ ret.res = "Ok"
    /\ map[ret.id].id # ret.id
    /\ map[ret.id].total >= 1


-----------------------------------------------------------------------------
(* The in-memory repositories under a fair scheduler *)

InitMemory == Init /\ backend \in {"memory", "users"}

\* A step of the call task t has in progress
MemoryStep(t) ==
    /\ \/ MemGet(t)
       \/ MemSave(t)
       \/ MemRankLock(t)
       \/ MemRankAverage(t)
       \/ MemRankTotal(t)
    /\ UNCHANGED <<userVars, entityVars>>

UserStep(t) ==
    /\ \/ get_user(t)
       \/ create_user(t)
    /\ UNCHANGED entityVars

\* The step task t can take, in whichever repository it is calling
TaskStep(t) == MemoryStep(t) \/ UserStep(t)

NextMemory ==
    \/ \E t \in Tasks, a \in CallArgs : Invoke(t, a) /\ UNCHANGED <<userVars, entityVars>>
    \/ \E t \in Tasks, a \in UserCallArgs : InvokeUser(t, a) /\ UNCHANGED entityVars
    \/ \E t \in Tasks : MemoryStep(t)
    \/ \E t \in Tasks : UserStep(t)

\* Callers may stop calling; a task inside a call keeps being scheduled
SpecMemoryFair ==
    /\ InitMemory
    /\ [][NextMemory]_vars
    /\ \A t \in Tasks : WF_vars(TaskStep(t))

\* The guards are held by one task at most, and only inside a rank
GuardsWellHeld ==
    /\ Cardinality(lock) <= 1
    /\ \A t \in lock : pc[t] \in {"average", "total"}
    /\ ulock = {}

\* C20: the in-memory repositories never deadlock and every call returns:
\* the guard is held by one task at most and by no task outside a call, and
\* under fair scheduling no task stays in a call for ever.
C20_EveryCallReturns ==
    /\ []GuardsWellHeld
    /\ \A t \in Tasks : []<>(pc[t] = "idle")

\* A rank has taken its not-found return while another task waits for the
\* guard, which is free again
C20_Witness ==
    /\ backend = "memory"
    /\ ret.op = "rank" /\ ret.res = "NotFound"
    /\ lock = {}
    /\ \E u \in Tasks : u # ret.task /\ pc[u] = "call"

====
